---- MODULE Spec2Model ----
(***************************************************************************)
(* mindy, a Multi INDex proxY for Pilosa.                                  *)
(*                                                                         *)
(* The specifications, over one set of variables:                          *)
(*   Spec       the aggregate-returning Handler.Query of src/mindy.go:     *)
(*              one goroutine per requested index, gated by the channel    *)
(*              semaphore, collected by an errgroup into Results.          *)
(*   SpecPaths  the same Query called once, over every path through        *)
(*              queryIndex.                                                *)
(*   SpecQuery  the same Query called for one index, client.Query being    *)
(*              answered by an engine that holds the bitmaps of TestMindy. *)
(*   SpecStream the streaming Handler.Query of src/unnamed/part_000: one   *)
(*              goroutine per slice, results sent over a channel.          *)
(***************************************************************************)
EXTENDS Integers, Sequences, FiniteSets, TLC

VARIABLES
    \* ---- Spec: Handler.Query of src/mindy.go
    req,        \* req[r]: the *Request of the r-th concurrent call of Query
    launched,   \* launched[r]: how many eg.Go calls the loop of Query has made
    tpc,        \* tpc[<<r, k>>]: where the goroutine of r.Indexes[k] stands
    texpr,      \* texpr[t]: the query t handed to client.Query
    tresp,      \* tresp[t]: what client.Query returned to t
    tres,       \* tres[t]: what queryIndex returned to the closure of t
    sem,        \* number of elements in the channel h.sem
    egErr,      \* egErr[r]: the err field of the errgroup of r
    mu,         \* mu[r]: 0, or k when goroutine <<r, k>> holds results.mu
    Bits,       \* Bits[r]: results.Bits, a map from index name to columns
    ret,        \* ret[r]: what Query returned
    failOrder,  \* history: per request, the tasks in the order queryIndex failed
    recOrder,   \* history: per request, the tasks in the order they reached errOnce
    writeOrder, \* history: per request, the tasks in the order they wrote Bits
    \* ---- SpecQuery: the engine behind client.Query
    qzero,      \* what the engine makes of an Intersect of no bitmaps
    \* ---- SpecStream: Handler.Query of src/unnamed/part_000
    sreq,       \* the *Request
    smax,       \* the map SlicesMax returns: index name to its maximum slice
    spc,        \* where Query stands
    si,         \* the position in r.Indexes the loop of Query has reached
    ssl,        \* the slice the inner loop has reached
    stpc,       \* stpc[<<k, sl>>]: where the goroutine of slice sl of r.Indexes[k] stands
    stres,      \* stres[t]: the error, or the columns, the response gave sliceQuery
    ssent,      \* ssent[t]: how many Bits t has sent on results
    slots,      \* number of elements in the channel h.sem
    sgErr,      \* the err field of the errgroup
    closed,     \* close(results) has run
    wpc,        \* where the goroutine that writes the results stands
    wbit,       \* the Bit that goroutine received last
    writeErr,   \* the channel writeErr: its buffer, and whether it is closed
    out,        \* the lines written to w
    sret        \* what Query returned

fanVars == <<req, launched, tpc, texpr, tresp, tres, sem, egErr, mu, Bits, ret,
             failOrder, recOrder, writeOrder>>
queryVars == <<qzero>>
streamVars == <<sreq, smax, spc, si, ssl, stpc, stres, ssent, slots, sgErr,
                closed, wpc, wbit, writeErr, out, sret>>
vars == <<fanVars, queryVars, streamVars>>

----------------------------------------------------------------------------
(* Bounds of the model *)

\* Concurrent calls of Handler.Query sharing one Handler.
NumReqs == 2
\* Longest Request.Indexes of one call.
MaxIndexes == 2
\* Most goroutines all calls together launch.
MaxTasks == 3
\* Longest Includes and longest Excludes of the requests of SpecQuery.
MaxRows == 2
\* populate sets the bits below 100; the engine of SpecQuery holds those
\* below MaxCol.
MaxCol == 12
\* Largest maximum slice of an index in SpecStream.
MaxSlice == 1

(* Program constants *)

\* make(semaphore, 2)
SemCap == 2

----------------------------------------------------------------------------
(* The schema of the Pilosa server after populate: its indexes, in the     *)
(* order populate makes them, and the frames of each.                       *)

PopulateIndexes == <<"p1", "two", "p3", "p4">>

SchemaFrames ==
    [p \in {PopulateIndexes[k] : k \in DOMAIN PopulateIndexes} |-> {"f1", "f2"}]

\* schema.Index(name) and index.Frame(name) hand back the index or frame of
\* that name, making it when the schema holds none: populate gets p1 and its
\* frames that way from the schema of an empty server.  They return an error
\* only for a name the ORM does not accept; of the names of this model
\* those are the ones in capitals.
RejectedNames == {"ZZ", "FX", "FY"}
NameOK(name) == name \notin RejectedNames

----------------------------------------------------------------------------
(* Errors.  One record shape for all, so that any two can be compared.      *)

Err(kind, idx, arg, n) == [kind |-> kind, idx |-> idx, arg |-> arg, n |-> n]
NoErr == Err("nil", "", "", 0)

----------------------------------------------------------------------------
(* PQL queries, as the go-pilosa ORM builds them.                           *)

PQL(op, idx, frame, row, args) ==
    [op |-> op, index |-> idx, frame |-> frame, row |-> row, args |-> args]
NoQuery == PQL("nil", "", "", 0, <<>>)

\* frame.Bitmap(row.ID)
Bitmap(idx, row) == PQL("Bitmap", idx, row.Frame, row.ID, <<>>)
\* index.Intersect(bitmaps...)
Intersect(idx, bitmaps) == PQL("Intersect", idx, "", 0, bitmaps)
\* index.Union(bitmaps...)
Union(idx, bitmaps) == PQL("Union", idx, "", 0, bitmaps)
\* index.Difference(bitmaps...)
Difference(idx, bitmaps) == PQL("Difference", idx, "", 0, bitmaps)

Min(S) == CHOOSE x \in S : \A y \in S : x <= y

\* The rows of a list whose index.Frame(row.Frame) fails.
BadRows(idx, rows) == {i \in 1..Len(rows) : ~NameOK(rows[i].Frame)}

\* Mutant of RowBitmaps: the loop stops one row early.
RowBitmapsDropLast(idx, rows) ==
    [i \in 1..(Len(rows) - 1) |-> Bitmap(idx, rows[i])]

\* for _, row := range rows { ... append(..., frame.Bitmap(row.ID)) }
RowBitmaps(idx, rows) == [i \in 1..Len(rows) |-> Bitmap(idx, rows[i])]

\* Mutant of ConjQuery: the two cases are swapped.
ConjQuerySwapped(idx, conj, includes) ==
    IF conj = "and" THEN Union(idx, includes) ELSE Intersect(idx, includes)

\* switch r.Conjunction { case "and": ... case "or": ... }
ConjQuery(idx, conj, includes) ==
    IF conj = "and" THEN Intersect(idx, includes) ELSE Union(idx, includes)

\* Mutant of DiffQuery: the conjunction query is appended after the excludes
\* instead of before them.
DiffQueryLast(idx, qry, excludes) ==
    IF Len(excludes) > 0 THEN Difference(idx, excludes \o <<qry>>) ELSE qry

\* Mutant of DiffQuery: the Difference is built whether or not there are
\* excludes.
DiffQueryAlways(idx, qry, excludes) == Difference(idx, <<qry>> \o excludes)

\* if len(excludes) > 0 { diffArgs = [qry, excludes...]; qry = Difference(diffArgs...) }
DiffQuery(idx, qry, excludes) ==
    IF Len(excludes) > 0 THEN Difference(idx, <<qry>> \o excludes) ELSE qry

\* Mutant of buildQuery: the switch has no default case that returns an
\* error; an unknown conjunction falls to the Union.
buildQueryDefaultOr(idx, r) ==
    IF ~NameOK(idx)
    THEN [err |-> Err("getting index", idx, "", 0), qry |-> NoQuery]
    ELSE IF BadRows(idx, r.Includes) # {}
    THEN [err |-> Err("getting frame", idx,
                      r.Includes[Min(BadRows(idx, r.Includes))].Frame, 0),
          qry |-> NoQuery]
    ELSE IF BadRows(idx, r.Excludes) # {}
    THEN [err |-> Err("getting frame", idx,
                      r.Excludes[Min(BadRows(idx, r.Excludes))].Frame, 0),
          qry |-> NoQuery]
    ELSE [err |-> NoErr,
          qry |-> DiffQuery(idx,
                            ConjQuery(idx, r.Conjunction, RowBitmaps(idx, r.Includes)),
                            RowBitmaps(idx, r.Excludes))]

\* From schema.Index(idx) to the finished query: the error of the first step
\* that fails, or the query.
buildQuery(idx, r) ==
    IF ~NameOK(idx)
    THEN [err |-> Err("getting index", idx, "", 0), qry |-> NoQuery]
    ELSE IF BadRows(idx, r.Includes) # {}
    THEN [err |-> Err("getting frame", idx,
                      r.Includes[Min(BadRows(idx, r.Includes))].Frame, 0),
          qry |-> NoQuery]
    ELSE IF BadRows(idx, r.Excludes) # {}
    THEN [err |-> Err("getting frame", idx,
                      r.Excludes[Min(BadRows(idx, r.Excludes))].Frame, 0),
          qry |-> NoQuery]
    ELSE IF r.Conjunction \notin {"and", "or"}
    THEN [err |-> Err("invalid conjunction", "", r.Conjunction, 0), qry |-> NoQuery]
    ELSE [err |-> NoErr,
          qry |-> DiffQuery(idx,
                            ConjQuery(idx, r.Conjunction, RowBitmaps(idx, r.Includes)),
                            RowBitmaps(idx, r.Excludes))]

----------------------------------------------------------------------------
(* What client.Query returns: an error, or a response with a ResultList of  *)
(* column lists.                                                            *)

Response(failed, list) == [failed |-> failed, ResultList |-> list]
NoResponse == Response(FALSE, <<<<0>>, <<0>>, <<0>>>>)

\* The columns of a set in ascending order.
RECURSIVE SortedSeq(_)
SortedSeq(S) ==
    IF S = {} THEN <<>>
    ELSE <<Min(S)>> \o SortedSeq(S \ {Min(S)})

SeqRange(s) == {s[i] : i \in DOMAIN s}

\* Mutant of queryResult: the columns are sorted before they are returned.
queryResultSorted(idx, response) ==
    IF response.failed
    THEN [err |-> Err("querying index", idx, "", 0), bits |-> <<>>]
    ELSE IF Len(response.ResultList) # 1
    THEN [err |-> Err("expected 1 result but got", "", "", Len(response.ResultList)),
          bits |-> <<>>]
    ELSE [err |-> NoErr, bits |-> SortedSeq(SeqRange(response.ResultList[1]))]

\* Mutant of queryResult: the length check lets more than one result pass.
queryResultAtLeastOne(idx, response) ==
    IF response.failed
    THEN [err |-> Err("querying index", idx, "", 0), bits |-> <<>>]
    ELSE IF Len(response.ResultList) < 1
    THEN [err |-> Err("expected 1 result but got", "", "", Len(response.ResultList)),
          bits |-> <<>>]
    ELSE [err |-> NoErr, bits |-> response.ResultList[1]]

\* The end of queryIndex: the error check, the length check, resp.Bitmap.Bits.
queryResult(idx, response) ==
    IF response.failed
    THEN [err |-> Err("querying index", idx, "", 0), bits |-> <<>>]
    ELSE IF Len(response.ResultList) # 1
    THEN [err |-> Err("expected 1 result but got", "", "", Len(response.ResultList)),
          bits |-> <<>>]
    ELSE [err |-> NoErr, bits |-> response.ResultList[1]]

NoResult == [err |-> NoErr, bits |-> <<0>>]

----------------------------------------------------------------------------
(* The semaphore: a channel of capacity SemCap.  Acquire sends, and blocks  *)
(* while the channel is full; Release receives.                             *)

\* Mutant of CanAcquire: the send never blocks (an unbounded channel).
CanAcquireAlways(s) == TRUE

\* s <- struct{}{} can proceed
CanAcquire(s) == s < SemCap
\* Mutant of Release: nothing is received from the channel.
ReleaseNothing(s) == s

\* <-s
Release(s) == s - 1

----------------------------------------------------------------------------
(* Results, the errgroup and the return of Query.                           *)

EmptyMap == [x \in {} |-> <<>>]

\* Mutant of setIndex: a key already present keeps its value.
setIndexKeepFirst(m, idx, bits) ==
    [x \in (DOMAIN m) \cup {idx} |-> IF x \in DOMAIN m THEN m[x] ELSE bits]

\* Mutant of setIndex: the map is replaced by one that holds the new key
\* alone.
setIndexClobber(m, idx, bits) == [x \in {idx} |-> bits]

\* r.Bits[idx] = bits
setIndex(m, idx, bits) ==
    [x \in (DOMAIN m) \cup {idx} |-> IF x = idx THEN bits ELSE m[x]]

\* Mutant of errOnce: every error is stored, the last one stays.
errOnceLast(old, new) == new

\* g.errOnce.Do(func() { g.err = err })
errOnce(old, new) == IF old = NoErr THEN new ELSE old

\* Mutant of queryReturn: the results built so far are returned beside the error.
queryReturnPartial(err, results) ==
    [returned |-> TRUE, nil |-> FALSE, results |-> results, err |-> err]

\* if err := eg.Wait(); err != nil { return nil, err }; return results, nil
queryReturn(err, results) ==
    IF err # NoErr
    THEN [returned |-> TRUE, nil |-> TRUE, results |-> EmptyMap, err |-> err]
    ELSE [returned |-> TRUE, nil |-> FALSE, results |-> results, err |-> NoErr]

NotReturned == [returned |-> FALSE, nil |-> TRUE, results |-> EmptyMap, err |-> NoErr]

\* Mutant of closureIndex: the closure reads the loop variable itself, which
\* holds the last index by the time the goroutine runs.
closureIndexShared(indexes, k) == indexes[Len(indexes)]

\* i := i // required for closure
closureIndex(indexes, k) == indexes[k]

----------------------------------------------------------------------------
(* The requests of Spec.                                                    *)

Reqs == 1..NumReqs
Tasks == Reqs \X (1..MaxIndexes)

Row(id, frame) == [ID |-> id, Frame |-> frame]

\* The request of TestMindy, one with an exclude, and one with a
\* conjunction queryIndex rejects.
Bodies ==
    { [Includes |-> <<Row(0, "f1"), Row(0, "f2")>>, Excludes |-> <<>>,
       Conjunction |-> "and"],
      [Includes |-> <<Row(0, "f1")>>, Excludes |-> <<Row(5, "f1")>>,
       Conjunction |-> "or"],
      [Includes |-> <<Row(0, "f1")>>, Excludes |-> <<>>,
       Conjunction |-> "xor"] }

\* The names the requests of Spec hold: the first two of TestMindy.
FanIndexes == {"p1", "two"}

IndexSeqs == UNION {[1..n -> FanIndexes] : n \in 0..MaxIndexes}

Requests ==
    { [Indexes |-> ix, Includes |-> b.Includes, Excludes |-> b.Excludes,
       Conjunction |-> b.Conjunction] : ix \in IndexSeqs, b \in Bodies }

RECURSIVE SumLen(_, _)
SumLen(f, S) ==
    IF S = {} THEN 0
    ELSE LET x == CHOOSE y \in S : TRUE
         IN  Len(f[x].Indexes) + SumLen(f, S \ {x})

\* What client.Query may answer: an error, no result, one result (the
\* columns in either order), two results.
Responses ==
    { Response(TRUE, <<>>), Response(FALSE, <<>>),
      Response(FALSE, <<<<1, 2>>>>), Response(FALSE, <<<<2, 1>>>>),
      Response(FALSE, <<<<1, 2>>, <<2, 1>>>>) }

IndexOf(t) == closureIndex(req[t[1]].Indexes, t[2])
TasksOf(r) == {t \in Tasks : t[1] = r /\ t[2] <= Len(req[r].Indexes)}
\* The goroutine holds a slot of h.sem.
Holding(t) == tpc[t] \in {"holding", "inflight", "responded"}

FanInit ==
    /\ req \in {f \in [Reqs -> Requests] : SumLen(f, Reqs) <= MaxTasks}
    /\ launched = [r \in Reqs |-> 0]
    /\ tpc = [t \in Tasks |-> "none"]
    /\ texpr = [t \in Tasks |-> NoQuery]
    /\ tresp = [t \in Tasks |-> NoResponse]
    /\ tres = [t \in Tasks |-> NoResult]
    /\ sem = 0
    /\ egErr = [r \in Reqs |-> NoErr]
    /\ mu = [r \in Reqs |-> 0]
    /\ Bits = [r \in Reqs |-> EmptyMap]
    /\ ret = [r \in Reqs |-> NotReturned]
    /\ failOrder = [r \in Reqs |-> <<>>]
    /\ recOrder = [r \in Reqs |-> <<>>]
    /\ writeOrder = [r \in Reqs |-> <<>>]

\* eg.Go(func() error { ... }) for the next index of the loop of Query.
Go(r) ==
    /\ ~ret[r].returned
    /\ launched[r] < Len(req[r].Indexes)
    /\ launched' = [launched EXCEPT ![r] = @ + 1]
    /\ tpc' = [tpc EXCEPT ![<<r, launched[r] + 1>>] = "launched"]
    /\ UNCHANGED <<req, texpr, tresp, tres, sem, egErr, mu, Bits, ret,
                   failOrder, recOrder, writeOrder>>

\* h.sem.Acquire() at the head of queryIndex.
Acquire(t) ==
    /\ tpc[t] = "launched"
    /\ CanAcquire(sem)
    /\ sem' = sem + 1
    /\ tpc' = [tpc EXCEPT ![t] = "holding"]
    /\ UNCHANGED <<req, launched, texpr, tresp, tres, egErr, mu, Bits, ret,
                   failOrder, recOrder, writeOrder>>

\* queryIndex returns err to the closure; the deferred Release runs.
Fail(t, err) ==
    /\ sem' = Release(sem)
    /\ tres' = [tres EXCEPT ![t] = [err |-> err, bits |-> <<>>]]
    /\ tpc' = [tpc EXCEPT ![t] = "returned"]
    /\ failOrder' = [failOrder EXCEPT ![t[1]] = Append(@, t)]

\* h.client.Schema() fails.
SchemaFail(t) ==
    /\ tpc[t] = "holding"
    /\ Fail(t, Err("getting schema", "", "", 0))
    /\ UNCHANGED <<req, launched, texpr, tresp, egErr, mu, Bits, ret,
                   recOrder, writeOrder>>

\* The schema arrives and schema.Index, index.Frame or the conjunction fails.
BuildFail(t) ==
    /\ tpc[t] = "holding"
    /\ buildQuery(IndexOf(t), req[t[1]]).err # NoErr
    /\ Fail(t, buildQuery(IndexOf(t), req[t[1]]).err)
    /\ UNCHANGED <<req, launched, texpr, tresp, egErr, mu, Bits, ret,
                   recOrder, writeOrder>>

\* The schema arrives, the query is built and h.client.Query(qry) is called.
Submit(t) ==
    /\ tpc[t] = "holding"
    /\ buildQuery(IndexOf(t), req[t[1]]).err = NoErr
    /\ texpr' = [texpr EXCEPT ![t] = buildQuery(IndexOf(t), req[t[1]]).qry]
    /\ tpc' = [tpc EXCEPT ![t] = "inflight"]
    /\ UNCHANGED <<req, launched, tresp, tres, sem, egErr, mu, Bits, ret,
                   failOrder, recOrder, writeOrder>>

\* h.client.Query(qry) returns.
QueryReturns(t) ==
    /\ tpc[t] = "inflight"
    /\ \E response \in Responses : tresp' = [tresp EXCEPT ![t] = response]
    /\ tpc' = [tpc EXCEPT ![t] = "responded"]
    /\ UNCHANGED <<req, launched, texpr, tres, sem, egErr, mu, Bits, ret,
                   failOrder, recOrder, writeOrder>>

\* queryIndex checks the response and returns an error; the deferred
\* Release runs.
CheckFail(t) ==
    /\ tpc[t] = "responded"
    /\ queryResult(IndexOf(t), tresp[t]).err # NoErr
    /\ Fail(t, queryResult(IndexOf(t), tresp[t]).err)
    /\ UNCHANGED <<req, launched, texpr, tresp, egErr, mu, Bits, ret,
                   recOrder, writeOrder>>

\* queryIndex checks the response and returns resp.Bitmap.Bits; the
\* deferred Release runs.
CheckOK(t) ==
    /\ tpc[t] = "responded"
    /\ queryResult(IndexOf(t), tresp[t]).err = NoErr
    /\ sem' = Release(sem)
    /\ tres' = [tres EXCEPT ![t] = queryResult(IndexOf(t), tresp[t])]
    /\ tpc' = [tpc EXCEPT ![t] = "returned"]
    /\ UNCHANGED <<req, launched, texpr, tresp, egErr, mu, Bits, ret,
                   failOrder, recOrder, writeOrder>>

\* The closure returns err; the errgroup records it once and the goroutine ends.
RecordErr(t) ==
    /\ tpc[t] = "returned"
    /\ tres[t].err # NoErr
    /\ egErr' = [egErr EXCEPT ![t[1]] = errOnce(@, tres[t].err)]
    /\ recOrder' = [recOrder EXCEPT ![t[1]] = Append(@, t)]
    /\ tpc' = [tpc EXCEPT ![t] = "done"]
    /\ UNCHANGED <<req, launched, texpr, tresp, tres, sem, mu, Bits, ret,
                   failOrder, writeOrder>>

\* Mutant of Lock: setIndex goes on without taking r.mu.
LockNotTaken(t) ==
    /\ tpc[t] = "returned"
    /\ tres[t].err = NoErr
    /\ mu' = [mu EXCEPT ![t[1]] = t[2]]
    /\ tpc' = [tpc EXCEPT ![t] = "locked"]
    /\ UNCHANGED <<req, launched, texpr, tresp, tres, sem, egErr, Bits, ret,
                   failOrder, recOrder, writeOrder>>

\* results.setIndex: r.mu.Lock()
Lock(t) ==
    /\ tpc[t] = "returned"
    /\ tres[t].err = NoErr
    /\ mu[t[1]] = 0
    /\ mu' = [mu EXCEPT ![t[1]] = t[2]]
    /\ tpc' = [tpc EXCEPT ![t] = "locked"]
    /\ UNCHANGED <<req, launched, texpr, tresp, tres, sem, egErr, Bits, ret,
                   failOrder, recOrder, writeOrder>>

\* results.setIndex: r.Bits[idx] = bits, the deferred r.mu.Unlock(); the
\* closure returns nil and the goroutine ends.
Write(t) ==
    /\ tpc[t] = "locked"
    /\ Bits' = [Bits EXCEPT ![t[1]] = setIndex(@, IndexOf(t), tres[t].bits)]
    /\ writeOrder' = [writeOrder EXCEPT ![t[1]] = Append(@, t)]
    /\ mu' = [mu EXCEPT ![t[1]] = 0]
    /\ tpc' = [tpc EXCEPT ![t] = "done"]
    /\ UNCHANGED <<req, launched, texpr, tresp, tres, sem, egErr, ret,
                   failOrder, recOrder>>

\* Mutant of Wait: Query returns as soon as an error is recorded, the other
\* goroutines being left behind.
WaitFirstError(r) ==
    /\ ~ret[r].returned
    /\ launched[r] = Len(req[r].Indexes)
    /\ egErr[r] # NoErr \/ \A t \in TasksOf(r) : tpc[t] = "done"
    /\ ret' = [ret EXCEPT ![r] = queryReturn(egErr[r], Bits[r])]
    /\ UNCHANGED <<req, launched, tpc, texpr, tresp, tres, sem, egErr, mu, Bits,
                   failOrder, recOrder, writeOrder>>

\* Mutant of Wait: Query returns after the loop without eg.Wait().
WaitSkipped(r) ==
    /\ ~ret[r].returned
    /\ launched[r] = Len(req[r].Indexes)
    /\ ret' = [ret EXCEPT ![r] = queryReturn(egErr[r], Bits[r])]
    /\ UNCHANGED <<req, launched, tpc, texpr, tresp, tres, sem, egErr, mu, Bits,
                   failOrder, recOrder, writeOrder>>

\* eg.Wait() returns, and Query with it.
Wait(r) ==
    /\ ~ret[r].returned
    /\ launched[r] = Len(req[r].Indexes)
    /\ \A t \in TasksOf(r) : tpc[t] = "done"
    /\ ret' = [ret EXCEPT ![r] = queryReturn(egErr[r], Bits[r])]
    /\ UNCHANGED <<req, launched, tpc, texpr, tresp, tres, sem, egErr, mu, Bits,
                   failOrder, recOrder, writeOrder>>

\* client.Query is not answered by the engine of SpecQuery.
QueryIdle == qzero = "error"

StreamTasks == (1..MaxIndexes) \X (0..MaxSlice)
NoBit == [Index |-> "", Col |-> 0]
NotReturnedErr == [returned |-> FALSE, err |-> NoErr]

StreamIdle ==
    /\ sreq = [Indexes |-> <<>>, Includes |-> <<>>, Excludes |-> <<>>,
               Conjunction |-> ""]
    /\ smax = EmptyMap
    /\ spc = "idle"
    /\ si = 1
    /\ ssl = 0
    /\ stpc = [t \in StreamTasks |-> "none"]
    /\ stres = [t \in StreamTasks |-> NoResult]
    /\ ssent = [t \in StreamTasks |-> 0]
    /\ slots = 0
    /\ sgErr = NoErr
    /\ closed = FALSE
    /\ wpc = "none"
    /\ wbit = NoBit
    /\ writeErr = [buf |-> <<>>, closed |-> FALSE]
    /\ out = <<>>
    /\ sret = NotReturnedErr

Init == FanInit /\ QueryIdle /\ StreamIdle

Next ==
    \/ \E r \in Reqs : Go(r) /\ UNCHANGED <<queryVars, streamVars>>
    \/ \E t \in Tasks : Acquire(t) /\ UNCHANGED <<queryVars, streamVars>>
    \/ \E t \in Tasks : SchemaFail(t) /\ UNCHANGED <<queryVars, streamVars>>
    \/ \E t \in Tasks : BuildFail(t) /\ UNCHANGED <<queryVars, streamVars>>
    \/ \E t \in Tasks : Submit(t) /\ UNCHANGED <<queryVars, streamVars>>
    \/ \E t \in Tasks : QueryReturns(t) /\ UNCHANGED <<queryVars, streamVars>>
    \/ \E t \in Tasks : CheckFail(t) /\ UNCHANGED <<queryVars, streamVars>>
    \/ \E t \in Tasks : CheckOK(t) /\ UNCHANGED <<queryVars, streamVars>>
    \/ \E t \in Tasks : RecordErr(t) /\ UNCHANGED <<queryVars, streamVars>>
    \/ \E t \in Tasks : Lock(t) /\ UNCHANGED <<queryVars, streamVars>>
    \/ \E t \in Tasks : Write(t) /\ UNCHANGED <<queryVars, streamVars>>
    \/ \E r \in Reqs : Wait(r) /\ UNCHANGED <<queryVars, streamVars>>

Spec == Init /\ [][Next]_vars

----------------------------------------------------------------------------
(* SpecPaths: the same Query, called once, with requests that take every    *)
(* path through queryIndex: an index or a frame the ORM rejects, among the  *)
(* includes or among the excludes, a frame the server does not hold, and    *)
(* any conjunction.                                                         *)

\* The names a request of SpecPaths may hold: the server holds p1, and
\* schema.Index rejects ZZ.
PathIndexes == {"p1", "ZZ"}

PathIndexSeqs == UNION {[1..n -> PathIndexes] : n \in 0..MaxIndexes}

\* index.Frame rejects the frames FX and FY; the server holds no frame fx.
PathBodies ==
    [ Includes : { <<Row(0, "f1")>>, <<Row(0, "f1"), Row(1, "FX")>>,
                   <<Row(0, "f1"), Row(1, "fx")>> },
      Excludes : { <<>>, <<Row(5, "f1")>>, <<Row(2, "FY")>> },
      Conjunction : {"and", "or", "xor"} ]

PathRequests ==
    { [Indexes |-> ix, Includes |-> b.Includes, Excludes |-> b.Excludes,
       Conjunction |-> b.Conjunction] : ix \in PathIndexSeqs, b \in PathBodies }

\* A *Request of no index: Query launches nothing for it.
NoIndexRequest ==
    [Indexes |-> <<>>, Includes |-> <<>>, Excludes |-> <<>>, Conjunction |-> "and"]

PathInit ==
    /\ \E q \in PathRequests :
         req = [r \in Reqs |-> IF r = 1 THEN q ELSE NoIndexRequest]
    /\ launched = [r \in Reqs |-> 0]
    /\ tpc = [t \in Tasks |-> "none"]
    /\ texpr = [t \in Tasks |-> NoQuery]
    /\ tresp = [t \in Tasks |-> NoResponse]
    /\ tres = [t \in Tasks |-> NoResult]
    /\ sem = 0
    /\ egErr = [r \in Reqs |-> NoErr]
    /\ mu = [r \in Reqs |-> 0]
    /\ Bits = [r \in Reqs |-> EmptyMap]
    /\ ret = [r \in Reqs |-> NotReturned]
    /\ failOrder = [r \in Reqs |-> <<>>]
    /\ recOrder = [r \in Reqs |-> <<>>]
    /\ writeOrder = [r \in Reqs |-> <<>>]

InitPaths == PathInit /\ QueryIdle /\ StreamIdle

SpecPaths == InitPaths /\ [][Next]_vars

----------------------------------------------------------------------------
(* SpecQuery: Query called for one index, client.Query being answered by   *)
(* an engine that holds the bitmaps populate sets.                          *)

\* populate: i, the position of each index in its list of indexes.
IndexNumber ==
    [p \in DOMAIN SchemaFrames |->
        (CHOOSE k \in DOMAIN PopulateIndexes : PopulateIndexes[k] = p) - 1]

\* populate: for row < 5, bit = 0, 1+i+row, 2(1+i+row), ... is set in f1, and
\* in f2 when bit is odd.
EngineBits(idx, frame, row) ==
    {c \in 0..(MaxCol - 1) :
        /\ row < 5
        /\ c % (1 + IndexNumber[idx] + row) = 0
        /\ (frame = "f2") => (c % 2 = 1)}

\* Every column of the index.
EngineColumns(idx) == 0..(MaxCol - 1)

\* What the engine may make of an Intersect of no bitmaps, which has no
\* value as a set operation: reject it, or answer with no column, or with
\* every column.
ZeroChoices == {"error", "none", "all"}

EngineResult(failed, cols) == [failed |-> failed, cols |-> cols]

RECURSIVE EngineEval(_, _)
\* The engine evaluates a PQL query to a set of columns, or rejects it: a
\* query on an index or on a frame it does not hold is rejected.
EngineEval(q, zero) ==
    LET n == Len(q.args)
        sub == [i \in 1..n |-> EngineEval(q.args[i], zero)]
        bad == \E i \in 1..n : sub[i].failed
        ofNone ==
            IF zero = "error" THEN EngineResult(TRUE, {})
            ELSE IF zero = "none" THEN EngineResult(FALSE, {})
            ELSE EngineResult(FALSE, EngineColumns(q.index))
    IN  IF q.index \notin DOMAIN SchemaFrames
        THEN EngineResult(TRUE, {})
        ELSE IF q.op = "Bitmap"
        THEN IF q.frame \in SchemaFrames[q.index]
             THEN EngineResult(FALSE, EngineBits(q.index, q.frame, q.row))
             ELSE EngineResult(TRUE, {})
        ELSE IF bad THEN EngineResult(TRUE, {})
        ELSE IF q.op = "Intersect"
        THEN IF n = 0 THEN ofNone
             ELSE EngineResult(FALSE,
                    {c \in sub[1].cols : \A i \in 1..n : c \in sub[i].cols})
        ELSE IF q.op = "Union"
        THEN EngineResult(FALSE, UNION {sub[i].cols : i \in 1..n})
        ELSE IF q.op = "Difference" /\ n > 0
        THEN EngineResult(FALSE,
               {c \in sub[1].cols : \A i \in 2..n : c \notin sub[i].cols})
        ELSE EngineResult(TRUE, {})

\* client.Query(qry) against that engine: one result, its columns ascending.
EngineQuery(q, zero) ==
    LET e == EngineEval(q, zero)
    IN  IF e.failed THEN Response(TRUE, <<>>)
        ELSE Response(FALSE, <<SortedSeq(e.cols)>>)

\* h.client.Query(qry) returns what the engine answers.
EngineReturns(t) ==
    /\ tpc[t] = "inflight"
    /\ tresp' = [tresp EXCEPT ![t] = EngineQuery(texpr[t], qzero)]
    /\ tpc' = [tpc EXCEPT ![t] = "responded"]
    /\ UNCHANGED <<req, launched, texpr, tres, sem, egErr, mu, Bits, ret,
                   failOrder, recOrder, writeOrder>>

\* The index a request of SpecQuery names: those of TestMindy, and one the
\* server does not hold.
QueryIndexes == {"p1", "two", "p3", "zz"}
\* The rows a request of SpecQuery may name; index.Frame rejects FX.
QueryRows == {Row(0, "f1"), Row(0, "f2"), Row(2, "f1"), Row(0, "FX")}
RowSeqs == UNION {[1..n -> QueryRows] : n \in 0..MaxRows}

QueryRequests ==
    { [Indexes |-> <<p>>, Includes |-> inc, Excludes |-> exc, Conjunction |-> c] :
        p \in QueryIndexes, inc \in RowSeqs, exc \in RowSeqs,
        c \in {"and", "or", "xor"} }

QueryInit ==
    /\ \E q \in QueryRequests :
         req = [r \in Reqs |-> IF r = 1 THEN q ELSE NoIndexRequest]
    /\ launched = [r \in Reqs |-> 0]
    /\ tpc = [t \in Tasks |-> "none"]
    /\ texpr = [t \in Tasks |-> NoQuery]
    /\ tresp = [t \in Tasks |-> NoResponse]
    /\ tres = [t \in Tasks |-> NoResult]
    /\ sem = 0
    /\ egErr = [r \in Reqs |-> NoErr]
    /\ mu = [r \in Reqs |-> 0]
    /\ Bits = [r \in Reqs |-> EmptyMap]
    /\ ret = [r \in Reqs |-> NotReturned]
    /\ failOrder = [r \in Reqs |-> <<>>]
    /\ recOrder = [r \in Reqs |-> <<>>]
    /\ writeOrder = [r \in Reqs |-> <<>>]
    /\ qzero \in ZeroChoices

FanIdle ==
    /\ req = [r \in Reqs |-> [Indexes |-> <<>>, Includes |-> <<>>,
                              Excludes |-> <<>>, Conjunction |-> ""]]
    /\ launched = [r \in Reqs |-> 0]
    /\ tpc = [t \in Tasks |-> "none"]
    /\ texpr = [t \in Tasks |-> NoQuery]
    /\ tresp = [t \in Tasks |-> NoResponse]
    /\ tres = [t \in Tasks |-> NoResult]
    /\ sem = 0
    /\ egErr = [r \in Reqs |-> NoErr]
    /\ mu = [r \in Reqs |-> 0]
    /\ Bits = [r \in Reqs |-> EmptyMap]
    /\ ret = [r \in Reqs |-> NotReturned]
    /\ failOrder = [r \in Reqs |-> <<>>]
    /\ recOrder = [r \in Reqs |-> <<>>]
    /\ writeOrder = [r \in Reqs |-> <<>>]

\* The one goroutine SpecQuery follows.
qtask == <<1, 1>>

\* The steps of that call of Query and of its goroutine, client.Query being
\* answered by the engine.
QueryNext ==
    \/ Go(1) /\ UNCHANGED <<queryVars, streamVars>>
    \/ Acquire(qtask) /\ UNCHANGED <<queryVars, streamVars>>
    \/ SchemaFail(qtask) /\ UNCHANGED <<queryVars, streamVars>>
    \/ BuildFail(qtask) /\ UNCHANGED <<queryVars, streamVars>>
    \/ Submit(qtask) /\ UNCHANGED <<queryVars, streamVars>>
    \/ EngineReturns(qtask) /\ UNCHANGED <<queryVars, streamVars>>
    \/ CheckFail(qtask) /\ UNCHANGED <<queryVars, streamVars>>
    \/ CheckOK(qtask) /\ UNCHANGED <<queryVars, streamVars>>
    \/ RecordErr(qtask) /\ UNCHANGED <<queryVars, streamVars>>
    \/ Lock(qtask) /\ UNCHANGED <<queryVars, streamVars>>
    \/ Write(qtask) /\ UNCHANGED <<queryVars, streamVars>>
    \/ Wait(1) /\ UNCHANGED <<queryVars, streamVars>>

----------------------------------------------------------------------------
(* Properties of Spec.                                                      *)

Returned(r) == ret[r].returned
Succeeded(r) == ret[r].returned /\ ~ret[r].nil
FailedTasks(r) == {t \in TasksOf(r) : tres[t].err # NoErr}
Names(r) == SeqRange(req[r].Indexes)
\* The tasks of r launched for the name p.
TasksFor(r, p) == {t \in TasksOf(r) : req[r].Indexes[t[2]] = p}
SameBody(r1, r2) ==
    /\ req[r1].Includes = req[r2].Includes
    /\ req[r1].Excludes = req[r2].Excludes
    /\ req[r1].Conjunction = req[r2].Conjunction
\* The last task of r that wrote Bits[p].
LastWriter(r, p) ==
    LET W == {i \in 1..Len(writeOrder[r]) : writeOrder[r][i] \in TasksFor(r, p)}
    IN  writeOrder[r][CHOOSE i \in W : \A j \in W : j <= i]

\* C1: at every instant at most SemCap goroutines, of all concurrent calls of
\* Query together, hold a slot of the semaphore, and so at most SemCap calls
\* of client.Query are in flight.
C1_ConcurrencyBound ==
    /\ Cardinality({t \in Tasks : Holding(t)}) <= SemCap
    /\ Cardinality({t \in Tasks : tpc[t] = "inflight"}) <= SemCap
    /\ sem = Cardinality({t \in Tasks : Holding(t)})

\* C1 witness: all slots are taken by calls in flight that belong to two
\* different requests, while a further goroutine waits in Acquire.
C1_Witness ==
    /\ Cardinality({t \in Tasks : tpc[t] = "inflight"}) = SemCap
    /\ \E t1, t2 \in Tasks :
         tpc[t1] = "inflight" /\ tpc[t2] = "inflight" /\ t1[1] # t2[1]
    /\ \E t \in Tasks : tpc[t] = "launched"

\* C2: when a task of a request has failed, Query returns an error and a nil
\* *Results: nothing a sibling wrote is returned.
C2_AllOrNothing ==
    \A r \in Reqs :
        (Returned(r) /\ FailedTasks(r) # {}) =>
            /\ ret[r].nil
            /\ ret[r].err # NoErr
            /\ ret[r].results = EmptyMap

\* C2 witness: Query returned an error although a sibling task had written
\* its columns into Bits.
C2_Witness ==
    \E r \in Reqs :
        /\ Returned(r)
        /\ FailedTasks(r) # {}
        /\ Bits[r] # EmptyMap

\* C4 as claimed: the error Query returns is the error of the task whose
\* queryIndex failed first in time.
C4_FirstFailedWins ==
    \A r \in Reqs :
        (Returned(r) /\ failOrder[r] # <<>>) =>
            ret[r].err = tres[Head(failOrder[r])].err

\* C4 amended: the error the errgroup holds, and Query returns, is the error
\* of the task that reached errOnce first; no later failure replaces it.
C4_FirstRecordedWins ==
    \A r \in Reqs :
        /\ (recOrder[r] # <<>>) => egErr[r] = tres[Head(recOrder[r])].err
        /\ (recOrder[r] = <<>>) => egErr[r] = NoErr
        /\ (Returned(r) /\ failOrder[r] # <<>>) =>
               /\ recOrder[r] # <<>>
               /\ ret[r].err = tres[Head(recOrder[r])].err

\* C4 witness: Query returned after two tasks failed with different errors,
\* the one that failed first having reached errOnce second.
C4_Witness ==
    \E r \in Reqs :
        /\ Returned(r)
        /\ Len(recOrder[r]) = 2
        /\ tres[recOrder[r][1]].err # tres[recOrder[r][2]].err
        /\ Head(failOrder[r]) # Head(recOrder[r])

\* C5: when every task of a request succeeded, Query returns a map whose keys
\* are exactly the requested names, each mapped to the column list
\* client.Query returned to a task of that name, in the order returned.
C5_SuccessComplete ==
    \A r \in Reqs :
        (Returned(r) /\ FailedTasks(r) = {}) =>
            /\ ~ret[r].nil
            /\ DOMAIN ret[r].results = Names(r)
            /\ \A p \in Names(r) :
                 p \in DOMAIN ret[r].results /\
                 \E t \in TasksFor(r, p) :
                     /\ ~tresp[t].failed
                     /\ Len(tresp[t].ResultList) = 1
                     /\ ret[r].results[p] = tresp[t].ResultList[1]

\* C5 witness: a request for two different names succeeded, and one column
\* list is not in ascending order.
C5_Witness ==
    \E r \in Reqs :
        /\ Succeeded(r)
        /\ Cardinality(DOMAIN ret[r].results) = 2
        /\ \E p \in DOMAIN ret[r].results : ret[r].results[p] = <<2, 1>>

\* C6: in a successful request every occurrence of a name got its own task,
\* which queried that name, and the map holds for the name the columns of the
\* task that wrote last.
C6_DuplicateLastWriteWins ==
    \A r \in Reqs :
        Succeeded(r) =>
            \A p \in Names(r) :
                /\ Cardinality({t \in TasksOf(r) :
                                   tpc[t] = "done" /\ texpr[t].index = p})
                     = Cardinality({k \in 1..Len(req[r].Indexes) :
                                       req[r].Indexes[k] = p})
                /\ p \in DOMAIN ret[r].results
                /\ ret[r].results[p] = tres[LastWriter(r, p)].bits

\* C6 witness: a name was requested twice, the two tasks got different
\* columns, and the first occurrence wrote last.
C6_Witness ==
    \E r \in Reqs :
        /\ Succeeded(r)
        /\ Len(req[r].Indexes) = 2
        /\ req[r].Indexes[1] = req[r].Indexes[2]
        /\ tres[<<r, 1>>].bits # tres[<<r, 2>>].bits
        /\ writeOrder[r] = <<(<<r, 2>>), (<<r, 1>>)>>

\* C7: two successful requests with the same includes, excludes and
\* conjunction submit the same query for a name they share, and, when
\* client.Query answers both the same, return the same columns for it,
\* whatever other names either request holds.
C7_PartitionIndependence ==
    \A r1, r2 \in Reqs :
        (Succeeded(r1) /\ Succeeded(r2) /\ SameBody(r1, r2)) =>
            \A p \in Names(r1) \cap Names(r2) :
                \A t1 \in TasksFor(r1, p), t2 \in TasksFor(r2, p) :
                    /\ texpr[t1] = texpr[t2]
                    /\ texpr[t1].index = p
                    /\ (/\ Cardinality(TasksFor(r1, p)) = 1
                        /\ Cardinality(TasksFor(r2, p)) = 1
                        /\ tresp[t1] = tresp[t2]) =>
                           /\ p \in DOMAIN ret[r1].results
                           /\ p \in DOMAIN ret[r2].results
                           /\ ret[r1].results[p] = ret[r2].results[p]

\* C7 witness: a request for two names and a request for the first of them
\* alone, with the same body, both succeeded; the engine gave the shared name
\* the same columns in both and the other name different ones.
C7_Witness ==
    \E r1, r2 \in Reqs :
        /\ r1 # r2
        /\ Succeeded(r1) /\ Succeeded(r2) /\ SameBody(r1, r2)
        /\ Len(req[r1].Indexes) = 2 /\ Len(req[r2].Indexes) = 1
        /\ req[r1].Indexes[1] = req[r2].Indexes[1]
        /\ req[r1].Indexes[2] # req[r1].Indexes[1]
        /\ tresp[<<r1, 1>>] = tresp[<<r2, 1>>]
        /\ tresp[<<r1, 2>>] # tresp[<<r1, 1>>]

----------------------------------------------------------------------------
(* Properties of SpecQuery.  The column sets are read off the engine's      *)
(* bitmaps, not off the query.                                              *)

\* The goroutine of SpecQuery: its index, its request, the query it handed
\* to client.Query and what queryIndex returned to it.
qidx == req[1].Indexes[1]
qreq == req[1]
qdone == tpc[qtask] \in {"returned", "locked", "done"}
qexpr == texpr[qtask]
qres == tres[qtask]
\* What queryIndex returns for the request r once the schema has arrived.
ResultFor(r) ==
    IF buildQuery(qidx, r).err # NoErr
    THEN [err |-> buildQuery(qidx, r).err, bits |-> <<>>]
    ELSE queryResult(qidx, EngineQuery(buildQuery(qidx, r).qry, qzero))

QuerySucceeded == qdone /\ qres.err = NoErr
ResultSet == SeqRange(qres.bits)
RowSets(rows) ==
    [i \in 1..Len(rows) |-> EngineBits(qidx, rows[i].Frame, rows[i].ID)]
RowLeaves(rows) ==
    [i \in 1..Len(rows) |->
        [op |-> "Bitmap", index |-> qidx, frame |-> rows[i].Frame,
         row |-> rows[i].ID, args |-> <<>>]]
IntersectionOf(sets, all) == {c \in all : \A i \in DOMAIN sets : c \in sets[i]}
UnionOf(sets) == UNION {sets[i] : i \in DOMAIN sets}

RECURSIVE DifferenceOf(_, _)
\* base with each set of the list removed, one after the other.
DifferenceOf(base, sets) ==
    IF sets = <<>> THEN base
    ELSE DifferenceOf(base \ Head(sets), Tail(sets))

\* The columns of the combined includes; for an "and" of no includes, what
\* the engine says.
CombinedSet ==
    IF qreq.Conjunction = "or" THEN UnionOf(RowSets(qreq.Includes))
    ELSE IF Len(qreq.Includes) = 0
    THEN IF qzero = "all" THEN EngineColumns(qidx) ELSE {}
    ELSE IntersectionOf(RowSets(qreq.Includes), EngineColumns(qidx))

Reorderings(s) ==
    {[i \in 1..Len(s) |-> s[f[i]]] : f \in Permutations(1..Len(s))}

\* C8 as claimed: for every request with no excludes and conjunction "and",
\* the query submitted is Intersect over the include leaves in request order
\* and the result is the intersection of the include rows' column sets (of no
\* rows: every column).
C8_AndIsIntersection ==
    (QuerySucceeded /\ qreq.Excludes = <<>> /\ qreq.Conjunction = "and") =>
        /\ qexpr = [op |-> "Intersect", index |-> qidx, frame |-> "", row |-> 0,
                    args |-> RowLeaves(qreq.Includes)]
        /\ ResultSet = IntersectionOf(RowSets(qreq.Includes), EngineColumns(qidx))

\* C8 amended: the same for every such request with at least one include row.
C8_AndIsIntersectionOfSome ==
    (/\ QuerySucceeded /\ qreq.Excludes = <<>> /\ qreq.Conjunction = "and"
     /\ Len(qreq.Includes) >= 1) =>
        /\ qexpr = [op |-> "Intersect", index |-> qidx, frame |-> "", row |-> 0,
                    args |-> RowLeaves(qreq.Includes)]
        /\ ResultSet = IntersectionOf(RowSets(qreq.Includes), EngineColumns(qidx))
        /\ Len(qres.bits) = Cardinality(ResultSet)

\* C8 witness: an "and" of two rows neither of which holds the other's
\* columns, with columns in common.
C8_Witness ==
    /\ QuerySucceeded /\ qreq.Excludes = <<>> /\ qreq.Conjunction = "and"
    /\ Len(qreq.Includes) = 2
    /\ ResultSet # {}
    /\ \A i \in 1..2 : RowSets(qreq.Includes)[i] # ResultSet

\* C9 as claimed: for every request with conjunction "or" the result is the
\* union of the include rows' column sets.
C9_OrIsUnion ==
    (QuerySucceeded /\ qreq.Conjunction = "or") =>
        ResultSet = UnionOf(RowSets(qreq.Includes))

\* C9 amended: for every request with conjunction "or" and no excludes, the
\* query submitted is Union over the include leaves and the result is the
\* union of the include rows' column sets.
C9_OrIsUnionNoExcludes ==
    (QuerySucceeded /\ qreq.Conjunction = "or" /\ qreq.Excludes = <<>>) =>
        /\ qexpr = [op |-> "Union", index |-> qidx, frame |-> "", row |-> 0,
                    args |-> RowLeaves(qreq.Includes)]
        /\ ResultSet = UnionOf(RowSets(qreq.Includes))
        /\ Len(qres.bits) = Cardinality(ResultSet)

\* C9 witness: an "or" of two rows neither of which holds the other's columns.
C9_Witness ==
    /\ QuerySucceeded /\ qreq.Conjunction = "or" /\ qreq.Excludes = <<>>
    /\ Len(qreq.Includes) = 2
    /\ \A i \in 1..2 : RowSets(qreq.Includes)[i] # ResultSet

\* C10: for every request with excludes the result is the combined includes'
\* column set with each exclude row's column set removed in list order; it is
\* the same for every order of the excludes, and the same when an exclude is
\* listed once more.
C10_ExcludeSemantics ==
    (QuerySucceeded /\ Len(qreq.Excludes) > 0) =>
        /\ ResultSet = DifferenceOf(CombinedSet, RowSets(qreq.Excludes))
        /\ Len(qres.bits) = Cardinality(ResultSet)
        /\ \A ex \in Reorderings(qreq.Excludes) :
             ResultFor([qreq EXCEPT !.Excludes = ex]) = qres
        /\ \A i \in 1..Len(qreq.Excludes) :
             ResultFor([qreq EXCEPT !.Excludes = Append(@, qreq.Excludes[i])]) = qres

\* C10 witness: two excludes, each removing a column the other leaves, and
\* both removing one same column of the combined includes.
C10_Witness ==
    /\ QuerySucceeded /\ Len(qreq.Excludes) = 2
    /\ ResultSet # {}
    /\ LET ex == RowSets(qreq.Excludes)
       IN  /\ (CombinedSet \cap ex[1]) \ ex[2] # {}
           /\ (CombinedSet \cap ex[2]) \ ex[1] # {}
           /\ CombinedSet \cap ex[1] \cap ex[2] # {}

----------------------------------------------------------------------------
(* SpecStream: Handler.Query of src/unnamed/part_000, which writes          *)
(* "index,column" lines to w as the slices answer.                          *)

\* The names a request of SpecStream may hold: the first two of TestMindy,
\* and one schema.Index rejects.
StreamIndexes == {"p1", "two", "ZZ"}

StreamIndexSeqs == UNION {[1..n -> StreamIndexes] : n \in 1..MaxIndexes}

\* What /slices/max may answer: every index of the server, or p1 alone.
SliceMaps ==
    { [p \in DOMAIN SchemaFrames |-> IF p = "p1" THEN MaxSlice ELSE 0],
      [p \in {"p1"} |-> 0] }

\* What client.Query may answer for the slice sl of an index: an error, no
\* result, one result of no column, one result of two columns.  A slice is a
\* range of columns, so no column comes back from two slices of an index.
SliceResponses(sl) ==
    { Response(TRUE, <<>>), Response(FALSE, <<>>),
      Response(FALSE, <<<<>>>>),
      Response(FALSE, <<<<2 * sl + 1, 2 * sl + 2>>>>) }

StreamInit ==
    /\ sreq \in { [Indexes |-> ix, Includes |-> b.Includes,
                   Excludes |-> b.Excludes, Conjunction |-> b.Conjunction] :
                  ix \in StreamIndexSeqs, b \in Bodies }
    /\ smax \in SliceMaps
    /\ spc = "start"
    /\ si = 1
    /\ ssl = 0
    /\ stpc = [t \in StreamTasks |-> "none"]
    /\ stres = [t \in StreamTasks |-> NoResult]
    /\ ssent = [t \in StreamTasks |-> 0]
    /\ slots = 0
    /\ sgErr = NoErr
    /\ closed = FALSE
    /\ wpc = "none"
    /\ wbit = NoBit
    /\ writeErr = [buf |-> <<>>, closed |-> FALSE]
    /\ out = <<>>
    /\ sret = NotReturnedErr

\* The index the loop of Query stands at.
LoopIndex == sreq.Indexes[si]
InLoop == spc = "loop" /\ si <= Len(sreq.Indexes)
StreamLaunched == {t \in StreamTasks : stpc[t] # "none"}

\* errors.Wrap(err, msg): nil of nil, else the message set before the error.
Wrap(err, msg) ==
    IF err = NoErr THEN NoErr ELSE [err EXCEPT !.kind = msg \o ": " \o @]

\* return err, out of Query.
StreamReturn(err) ==
    /\ sret' = [returned |-> TRUE, err |-> err]
    /\ spc' = "returned"

\* h.SlicesMax() fails, on its request or on the JSON of the answer.
SlicesMaxFail ==
    /\ spc = "start"
    /\ \E cause \in {"slices max request", "unmarshaling slices max"} :
         StreamReturn(Wrap(Err(cause, "", "", 0), "getting max slices"))
    /\ UNCHANGED <<sreq, smax, si, ssl, stpc, stres, ssent, slots, sgErr,
                   closed, wpc, wbit, writeErr, out>>

\* h.SlicesMax() answers.
SlicesMaxOK ==
    /\ spc = "start"
    /\ spc' = "schema"
    /\ UNCHANGED <<sreq, smax, si, ssl, stpc, stres, ssent, slots, sgErr,
                   closed, wpc, wbit, writeErr, out, sret>>

\* h.client.Schema() fails.
StreamSchemaFail ==
    /\ spc = "schema"
    /\ StreamReturn(Err("getting schema", "", "", 0))
    /\ UNCHANGED <<sreq, smax, si, ssl, stpc, stres, ssent, slots, sgErr,
                   closed, wpc, wbit, writeErr, out>>

\* h.client.Schema() answers; results := make(chan Bit, 0) and the loop begins.
StreamSchemaOK ==
    /\ spc = "schema"
    /\ spc' = "loop"
    /\ UNCHANGED <<sreq, smax, si, ssl, stpc, stres, ssent, slots, sgErr,
                   closed, wpc, wbit, writeErr, out, sret>>

\* buildQuery fails for the index the loop stands at: Query returns.
StreamBuildFail ==
    /\ InLoop /\ ssl = 0
    /\ buildQuery(LoopIndex, sreq).err # NoErr
    /\ StreamReturn(Wrap(buildQuery(LoopIndex, sreq).err, "building query"))
    /\ UNCHANGED <<sreq, smax, si, ssl, stpc, stres, ssent, slots, sgErr,
                   closed, wpc, wbit, writeErr, out>>

\* maxSlices holds no entry for the index: Query returns.
NoMaxSlice ==
    /\ InLoop /\ ssl = 0
    /\ buildQuery(LoopIndex, sreq).err = NoErr
    /\ LoopIndex \notin DOMAIN smax
    /\ StreamReturn(Err("not found in max slices", LoopIndex, "", 0))
    /\ UNCHANGED <<sreq, smax, si, ssl, stpc, stres, ssent, slots, sgErr,
                   closed, wpc, wbit, writeErr, out>>

\* eg.Go(func() error { return h.sliceQuery(qry, sl, results) }) and sl++.
StreamGo ==
    /\ InLoop
    /\ buildQuery(LoopIndex, sreq).err = NoErr
    /\ LoopIndex \in DOMAIN smax
    /\ ssl <= smax[LoopIndex]
    /\ stpc' = [stpc EXCEPT ![<<si, ssl>>] = "launched"]
    /\ IF ssl + 1 <= smax[LoopIndex]
       THEN ssl' = ssl + 1 /\ si' = si
       ELSE ssl' = 0 /\ si' = si + 1
    /\ UNCHANGED <<sreq, smax, spc, stres, ssent, slots, sgErr,
                   closed, wpc, wbit, writeErr, out, sret>>

\* The loop is over: writeErr := make(chan error, 1), the writing goroutine
\* starts, Query enters eg.Wait().
StartWriter ==
    /\ spc = "loop" /\ si > Len(sreq.Indexes)
    /\ wpc' = "reading"
    /\ spc' = "wait"
    /\ UNCHANGED <<sreq, smax, si, ssl, stpc, stres, ssent, slots, sgErr,
                   closed, wbit, writeErr, out, sret>>

\* sliceQuery: h.sem.Acquire() and the call of client.Query.
SliceAcquire(t) ==
    /\ stpc[t] = "launched"
    /\ CanAcquire(slots)
    /\ slots' = slots + 1
    /\ stpc' = [stpc EXCEPT ![t] = "inflight"]
    /\ UNCHANGED <<sreq, smax, spc, si, ssl, stres, ssent, sgErr,
                   closed, wpc, wbit, writeErr, out, sret>>

\* client.Query returns, h.sem.Release(), and the checks of the response:
\* the goroutine goes on to return the error, or to send the columns.
SliceReturns(t) ==
    /\ stpc[t] = "inflight"
    /\ slots' = Release(slots)
    /\ \E response \in SliceResponses(t[2]) :
         /\ stres' = [stres EXCEPT
                        ![t] = queryResult(sreq.Indexes[t[1]], response)]
         /\ stpc' = [stpc EXCEPT
                        ![t] = IF queryResult(sreq.Indexes[t[1]], response).err # NoErr
                               THEN "failed" ELSE "sending"]
    /\ UNCHANGED <<sreq, smax, spc, si, ssl, ssent, sgErr,
                   closed, wpc, wbit, writeErr, out, sret>>

\* sliceQuery returns the error; the errgroup records it once.
SliceRecordErr(t) ==
    /\ stpc[t] = "failed"
    /\ sgErr' = errOnce(sgErr, stres[t].err)
    /\ stpc' = [stpc EXCEPT ![t] = "done"]
    /\ UNCHANGED <<sreq, smax, spc, si, ssl, stres, ssent, slots,
                   closed, wpc, wbit, writeErr, out, sret>>

\* results <- Bit{...}: the channel has no buffer, so the send happens when
\* the writing goroutine receives.
Send(t) ==
    /\ stpc[t] = "sending"
    /\ ssent[t] < Len(stres[t].bits)
    /\ wpc = "reading" /\ ~closed
    /\ wbit' = [Index |-> sreq.Indexes[t[1]], Col |-> stres[t].bits[ssent[t] + 1]]
    /\ ssent' = [ssent EXCEPT ![t] = @ + 1]
    /\ wpc' = "writing"
    /\ UNCHANGED <<sreq, smax, spc, si, ssl, stpc, stres, slots, sgErr,
                   closed, writeErr, out, sret>>

\* Mutant of SliceDone: the loop over the columns ends after its first turn.
SliceDoneEarly(t) ==
    /\ stpc[t] = "sending"
    /\ ssent[t] >= 1 \/ ssent[t] = Len(stres[t].bits)
    /\ stpc' = [stpc EXCEPT ![t] = "done"]
    /\ UNCHANGED <<sreq, smax, spc, si, ssl, stres, ssent, slots, sgErr,
                   closed, wpc, wbit, writeErr, out, sret>>

\* Every column is sent: sliceQuery returns nil.
SliceDone(t) ==
    /\ stpc[t] = "sending"
    /\ ssent[t] = Len(stres[t].bits)
    /\ stpc' = [stpc EXCEPT ![t] = "done"]
    /\ UNCHANGED <<sreq, smax, spc, si, ssl, stres, ssent, slots, sgErr,
                   closed, wpc, wbit, writeErr, out, sret>>

\* w.Write of the line of the Bit received succeeds.
WriteLine ==
    /\ wpc = "writing"
    /\ out' = Append(out, wbit)
    /\ wpc' = "reading"
    /\ UNCHANGED <<sreq, smax, spc, si, ssl, stpc, stres, ssent, slots, sgErr,
                   closed, wbit, writeErr, sret>>

\* w.Write fails: the error goes into writeErr, the goroutine returns and
\* its deferred close(writeErr) runs.
WriteFails ==
    /\ wpc = "writing"
    /\ writeErr' = [buf |-> Append(writeErr.buf,
                                   Wrap(Err("write", "", "", 0), "writing Bit to output")),
                    closed |-> TRUE]
    /\ wpc' = "done"
    /\ UNCHANGED <<sreq, smax, spc, si, ssl, stpc, stres, ssent, slots, sgErr,
                   closed, wbit, out, sret>>

\* range results ends, results being closed: close(writeErr).
WriterEnds ==
    /\ wpc = "reading" /\ closed
    /\ writeErr' = [writeErr EXCEPT !.closed = TRUE]
    /\ wpc' = "done"
    /\ UNCHANGED <<sreq, smax, spc, si, ssl, stpc, stres, ssent, slots, sgErr,
                   closed, wbit, out, sret>>

\* eg.Wait() returns, close(results), and "if err != nil { return err }".
StreamWait ==
    /\ spc = "wait"
    /\ \A t \in StreamLaunched : stpc[t] = "done"
    /\ closed' = TRUE
    /\ IF sgErr # NoErr
       THEN StreamReturn(sgErr)
       ELSE spc' = "recv" /\ sret' = sret
    /\ UNCHANGED <<sreq, smax, si, ssl, stpc, stres, ssent, slots, sgErr,
                   wpc, wbit, writeErr, out>>

\* return <-writeErr: the error in the buffer, nil once the channel is
\* closed and empty.
RecvWriteErr ==
    /\ spc = "recv"
    /\ writeErr.buf # <<>> \/ writeErr.closed
    /\ StreamReturn(IF writeErr.buf # <<>> THEN Head(writeErr.buf) ELSE NoErr)
    /\ writeErr' = [writeErr EXCEPT !.buf = IF @ # <<>> THEN Tail(@) ELSE @]
    /\ UNCHANGED <<sreq, smax, si, ssl, stpc, stres, ssent, slots, sgErr,
                   closed, wpc, wbit, out>>

StreamNext ==
    \/ SlicesMaxFail /\ UNCHANGED <<fanVars, queryVars>>
    \/ SlicesMaxOK /\ UNCHANGED <<fanVars, queryVars>>
    \/ StreamSchemaFail /\ UNCHANGED <<fanVars, queryVars>>
    \/ StreamSchemaOK /\ UNCHANGED <<fanVars, queryVars>>
    \/ StreamBuildFail /\ UNCHANGED <<fanVars, queryVars>>
    \/ NoMaxSlice /\ UNCHANGED <<fanVars, queryVars>>
    \/ StreamGo /\ UNCHANGED <<fanVars, queryVars>>
    \/ StartWriter /\ UNCHANGED <<fanVars, queryVars>>
    \/ \E t \in StreamTasks : SliceAcquire(t) /\ UNCHANGED <<fanVars, queryVars>>
    \/ \E t \in StreamTasks : SliceReturns(t) /\ UNCHANGED <<fanVars, queryVars>>
    \/ \E t \in StreamTasks : SliceRecordErr(t) /\ UNCHANGED <<fanVars, queryVars>>
    \/ \E t \in StreamTasks : Send(t) /\ UNCHANGED <<fanVars, queryVars>>
    \/ \E t \in StreamTasks : SliceDone(t) /\ UNCHANGED <<fanVars, queryVars>>
    \/ WriteLine /\ UNCHANGED <<fanVars, queryVars>>
    \/ WriteFails /\ UNCHANGED <<fanVars, queryVars>>
    \/ WriterEnds /\ UNCHANGED <<fanVars, queryVars>>
    \/ StreamWait /\ UNCHANGED <<fanVars, queryVars>>
    \/ RecvWriteErr /\ UNCHANGED <<fanVars, queryVars>>

InitStream == StreamInit /\ FanIdle /\ QueryIdle

SpecStream == InitStream /\ [][StreamNext]_vars

InitQuery == QueryInit /\ StreamIdle

SpecQuery == InitQuery /\ [][QueryNext]_vars

\* C3: Query returns only after every goroutine it launched has finished,
\* in the aggregate-returning Query and in the streaming one.
C3_WaitForAll ==
    /\ \A r \in Reqs :
         Returned(r) => \A t \in Tasks : tpc[t] \in {"none", "done"} \/ t[1] # r
    /\ sret.returned => \A t \in StreamTasks : stpc[t] \in {"none", "done"}

----------------------------------------------------------------------------
(* Properties of SpecPaths.                                                 *)

UnknownConjunction(r) == req[r].Conjunction \notin {"and", "or"}
\* The goroutine has come back from queryIndex.
BackFromQueryIndex(t) == tpc[t] \in {"returned", "locked", "done"}
SchemaErr == [kind |-> "getting schema", idx |-> "", arg |-> "", n |-> 0]

\* C11 as claimed: for every request whose conjunction is neither "and" nor
\* "or", whatever its indexes and rows, Query returns a validation error (a
\* bad conjunction or an unresolvable frame) and no results.
C11_UnknownConjunctionRejected ==
    \A r \in Reqs :
        (Returned(r) /\ UnknownConjunction(r)) =>
            /\ ret[r].nil
            /\ ret[r].err.kind \in {"invalid conjunction", "getting frame"}

\* C11 amended: for every request of at least one index whose conjunction is
\* neither "and" nor "or", every goroutine fails without submitting a query,
\* nothing is written to Bits, and Query returns an error and a nil *Results;
\* the error is "invalid conjunction" unless an earlier step failed for the
\* goroutine that reached errOnce first, and then it is the error of that
\* step.
C11_UnknownConjunctionFails ==
    \A r \in Reqs :
        UnknownConjunction(r) =>
            /\ \A t \in TasksOf(r) :
                 /\ texpr[t] = NoQuery
                 /\ tpc[t] \notin {"inflight", "responded", "locked"}
                 /\ BackFromQueryIndex(t) => tres[t].err # NoErr
            /\ Bits[r] = EmptyMap
            /\ (Returned(r) /\ Len(req[r].Indexes) >= 1) =>
                 /\ ret[r].nil
                 /\ ret[r].results = EmptyMap
                 /\ recOrder[r] # <<>>
                 /\ LET t == Head(recOrder[r])
                        p == req[r].Indexes[t[2]]
                        rows == req[r].Includes \o req[r].Excludes
                    IN  \/ ret[r].err = SchemaErr
                        \/ /\ p = "ZZ"
                           /\ ret[r].err.kind = "getting index"
                           /\ ret[r].err.idx = p
                        \/ /\ p # "ZZ"
                           /\ \E i \in 1..Len(rows) : rows[i].Frame \in {"FX", "FY"}
                           /\ ret[r].err.kind = "getting frame"
                        \/ /\ p # "ZZ"
                           /\ \A i \in 1..Len(rows) : rows[i].Frame \notin {"FX", "FY"}
                           /\ ret[r].err.kind = "invalid conjunction"
                           /\ ret[r].err.arg = req[r].Conjunction

\* C11 witness: a request of two indexes with the conjunction "xor" came
\* back with the error "invalid conjunction", its other goroutine having
\* failed on the index.
C11_Witness ==
    \E r \in Reqs :
        /\ Returned(r) /\ UnknownConjunction(r)
        /\ Len(req[r].Indexes) = 2
        /\ ret[r].err.kind = "invalid conjunction"
        /\ \E t \in TasksOf(r) : tres[t].err.kind = "getting index"

----------------------------------------------------------------------------
(* Properties of SpecStream.                                                *)

StreamSucceeded == sret.returned /\ sret.err = NoErr
StreamNames == SeqRange(sreq.Indexes)
\* The goroutines launched for the name p, one per occurrence and slice.
StreamTasksFor(p) == {t \in StreamLaunched : sreq.Indexes[t[1]] = p}
\* The columns the engine returned for p, over all its slices.
PartitionCols(p) == UNION {SeqRange(stres[t].bits) : t \in StreamTasksFor(p)}
\* How many lines "p,c" were written to w.
Lines(p, c) ==
    Cardinality({i \in 1..Len(out) : out[i] = [Index |-> p, Col |-> c]})
StreamCols == 0..(2 * MaxSlice + 2)

\* C12 as claimed: after a successful streaming Query, w holds exactly one
\* line "p,c" for every requested index p and every column c of its result,
\* and no other line.
C12_StreamExact ==
    StreamSucceeded =>
        /\ \A i \in 1..Len(out) : out[i].Index \in StreamNames
        /\ \A p \in StreamNames : \A c \in StreamCols :
             Lines(p, c) = IF c \in PartitionCols(p) THEN 1 ELSE 0

\* C12 amended: after a successful streaming Query, w holds for every
\* occurrence of an index in the request one line "p,c" per column c of its
\* result and no other line; when the names of the request are pairwise
\* distinct that is exactly one line per index and column.
C12_StreamExactPerOccurrence ==
    StreamSucceeded =>
        /\ \A i \in 1..Len(out) :
             out[i].Index \in StreamNames /\ out[i].Col \in StreamCols
        /\ \A p \in StreamNames : \A c \in StreamCols :
             /\ Lines(p, c) =
                  Cardinality({t \in StreamTasksFor(p) : c \in SeqRange(stres[t].bits)})
             /\ (Cardinality(StreamNames) = Len(sreq.Indexes)) =>
                  Lines(p, c) = IF c \in PartitionCols(p) THEN 1 ELSE 0

\* C12 witness: a successful request of two different indexes; two slices of
\* the first sent two columns each, and the second has no column.
C12_Witness ==
    /\ StreamSucceeded
    /\ Len(sreq.Indexes) = 2 /\ Cardinality(StreamNames) = 2
    /\ Len(out) = 4
    /\ \E p \in StreamNames : PartitionCols(p) = {}
    /\ \E p \in StreamNames : Cardinality(StreamTasksFor(p)) = 2

----------------------------------------------------------------------------
(* The slots of the semaphore.                                              *)

\* C13: a goroutine gives its slot back as soon as client.Query has
\* returned, before it checks the response, takes the columns out of it or
\* hands them on: only goroutines that have not yet got the answer of
\* client.Query hold a slot.
C13_ReleaseBeforeValidation ==
    /\ sem = Cardinality({t \in Tasks : tpc[t] \in {"holding", "inflight"}})
    /\ slots = Cardinality({t \in StreamTasks : stpc[t] = "inflight"})

\* The goroutine is between h.sem.Acquire() and the deferred h.sem.Release().
InQueryIndex(t) == tpc[t] \in {"holding", "inflight", "responded"}

\* C14: on every path through queryIndex the slot taken is given back exactly
\* once: the channel always holds one element per goroutine inside
\* queryIndex, none for a goroutine that has left it, and is empty whenever
\* no goroutine is inside.
C14_SlotConservation ==
    /\ sem >= 0
    /\ sem = Cardinality({t \in Tasks : InQueryIndex(t)})
    /\ (\A t \in Tasks : ~InQueryIndex(t)) => sem = 0
    /\ (\A r \in Reqs : Returned(r)) => sem = 0

\* C14 witness: Query has returned, one goroutine having left queryIndex on
\* an index name schema.Index rejects, and the other on a response of no
\* result, and the channel is empty.
C14_Witness ==
    \E r \in Reqs :
        /\ Returned(r) /\ sem = 0
        /\ \E t1, t2 \in TasksOf(r) :
             /\ tres[t1].err.kind = "getting index"
             /\ tres[t2].err.kind = "expected 1 result but got"

----------------------------------------------------------------------------
(* The response of client.Query.                                            *)

\* client.Query has returned a response, not an error, to the goroutine,
\* and queryIndex has returned.
GotResponse(t) == BackFromQueryIndex(t) /\ texpr[t] # NoQuery /\ ~tresp[t].failed

\* C15: a goroutine whose response holds a number of results other than one
\* fails with the error "expected 1 result but got" and that number, and
\* writes nothing into Bits; with exactly one result it succeeds with the
\* columns of that result.
C15_MalformedResponse ==
    \A t \in Tasks :
        GotResponse(t) =>
            IF Len(tresp[t].ResultList) = 1
            THEN /\ tres[t].err = NoErr
                 /\ tres[t].bits = tresp[t].ResultList[1]
            ELSE /\ tres[t].err.kind = "expected 1 result but got"
                 /\ tres[t].err.n = Len(tresp[t].ResultList)
                 /\ tres[t].bits = <<>>
                 /\ tpc[t] # "locked"
                 /\ \A i \in 1..Len(writeOrder[t[1]]) : writeOrder[t[1]][i] # t
                 /\ Returned(t[1]) => ret[t[1]].nil

\* C15 witness: Query returned after one goroutine got a response of two
\* results and its sibling a response of one, which it wrote into Bits.
C15_Witness ==
    \E r \in Reqs : \E t1, t2 \in TasksOf(r) :
        /\ Returned(r)
        /\ GotResponse(t1) /\ Len(tresp[t1].ResultList) = 2
        /\ GotResponse(t2) /\ Len(tresp[t2].ResultList) = 1
        /\ writeOrder[r] = <<t2>>

----------------------------------------------------------------------------
(* The errgroup does not cancel.                                            *)

\* C16: a failure recorded in the errgroup stops no other goroutine: the loop
\* still launches every index, a launched goroutine can still take a free
\* slot and go on, Query returns only when all are done, each having failed
\* on its own calls or written its own columns, and with an error recorded
\* none of what they wrote is returned.
C16_NoCancellation ==
    \A r \in Reqs :
        /\ (egErr[r] # NoErr /\ launched[r] < Len(req[r].Indexes)) => ENABLED Go(r)
        /\ \A t \in TasksOf(r) :
             /\ (egErr[r] # NoErr /\ tpc[t] = "launched" /\ sem < SemCap) =>
                    ENABLED Acquire(t)
             /\ (egErr[r] # NoErr /\ tpc[t] = "holding") =>
                    ENABLED (SchemaFail(t) \/ BuildFail(t) \/ Submit(t))
             /\ (egErr[r] # NoErr /\ tpc[t] = "inflight") => ENABLED QueryReturns(t)
        /\ Returned(r) =>
             /\ launched[r] = Len(req[r].Indexes)
             /\ \A t \in TasksOf(r) :
                  /\ tpc[t] = "done"
                  /\ \/ /\ tres[t].err = NoErr
                        /\ texpr[t] # NoQuery
                        /\ \E i \in 1..Len(writeOrder[r]) : writeOrder[r][i] = t
                     \/ tres[t].err = SchemaErr
                     \/ /\ tres[t].err.kind \in {"getting index", "getting frame",
                                                   "invalid conjunction"}
                        /\ texpr[t] = NoQuery
                     \/ /\ tres[t].err.kind \in {"querying index",
                                                   "expected 1 result but got"}
                        /\ texpr[t] # NoQuery
             /\ egErr[r] # NoErr => ret[r].nil /\ ret[r].results = EmptyMap

\* C16 witness: Query returned an error; the goroutine of the first index
\* failed, the goroutine of the second index submitted its query, got its
\* columns and wrote them.
C16_Witness ==
    \E r \in Reqs :
        /\ Returned(r) /\ ret[r].err # NoErr
        /\ Len(req[r].Indexes) = 2
        /\ tres[<<r, 1>>].err # NoErr
        /\ tres[<<r, 2>>].err = NoErr
        /\ writeOrder[r] = <<(<<r, 2>>)>>
        /\ Bits[r] # EmptyMap

----------------------------------------------------------------------------
(* Results.setIndex and the map it guards.                                  *)

Locked(r) == {t \in TasksOf(r) : tpc[t] = "locked"}
Writers(r) == SeqRange(writeOrder[r])

\* C17: at most one goroutine of a request is inside setIndex at any
\* instant, results.mu being held exactly while one is; each setIndex
\* assigns the one key it was called with and leaves the others as they
\* were, so that Bits holds, for each name written, the columns of its last
\* writer; and results.mu is free once the writes are over.
C17_MutualExclusion ==
    \A r \in Reqs :
        /\ Cardinality(Locked(r)) <= 1
        /\ (mu[r] = 0) <=> (Locked(r) = {})
        /\ (mu[r] # 0) => Locked(r) = {<<r, mu[r]>>}
        /\ DOMAIN Bits[r] = {req[r].Indexes[t[2]] : t \in Writers(r)}
        /\ \A p \in DOMAIN Bits[r] : Bits[r][p] = tres[LastWriter(r, p)].bits
        /\ Len(writeOrder[r]) = Cardinality(Writers(r))
        /\ Returned(r) => mu[r] = 0

\* C17 witness: a goroutine holds results.mu, about to write a second key
\* beside the one its sibling wrote, in a request whose two goroutines both
\* came back from queryIndex with columns, and different ones.
C17_Witness ==
    \E r \in Reqs : \E t1, t2 \in TasksOf(r) :
        /\ tpc[t1] = "locked" /\ mu[r] = t1[2]
        /\ writeOrder[r] = <<t2>>
        /\ req[r].Indexes[t1[2]] # req[r].Indexes[t2[2]]
        /\ tres[t1].bits # tres[t2].bits

\* C18: once Query has returned its *Results, no goroutine of the request
\* writes to it any more: every goroutine is done, results.mu is free, and
\* the map is, in every later state, the map that was returned.
C18_FrozenAggregate ==
    \A r \in Reqs :
        Succeeded(r) =>
            /\ \A t \in TasksOf(r) : tpc[t] = "done"
            /\ mu[r] = 0
            /\ ret[r].results = Bits[r]

\* C18 witness: Query returned a map of two names while a goroutine of the
\* other request is on its way into setIndex.
C18_Witness ==
    \E r \in Reqs :
        /\ Succeeded(r)
        /\ Cardinality(DOMAIN ret[r].results) = 2
        /\ \E t \in Tasks :
             t[1] # r /\ tpc[t] \in {"returned", "locked"} /\ tres[t].err = NoErr

----------------------------------------------------------------------------
(* The query queryIndex builds.                                             *)

\* schema.Index accepts the index, and index.Frame the frame of every row
\* of the list.
Resolves(rows) ==
    /\ qidx # "ZZ"
    /\ \A i \in 1..Len(rows) : rows[i].Frame # "FX"
Buildable ==
    /\ Resolves(qreq.Includes \o qreq.Excludes)
    /\ qreq.Conjunction \in {"and", "or"}
\* Intersect or Union over the leaves of the includes, in request order.
CombinedIncludes ==
    [op |-> IF qreq.Conjunction = "and" THEN "Intersect" ELSE "Union",
     index |-> qidx, frame |-> "", row |-> 0, args |-> RowLeaves(qreq.Includes)]

\* C19: the query built for an index is Intersect ("and") or Union ("or")
\* over the include leaves in request order; with excludes it is one
\* Difference whose arguments are that query first and then the exclude
\* leaves in request order; without excludes there is no Difference.
C19_ExpressionStructure ==
    (qdone /\ qres.err # SchemaErr) =>
        /\ Buildable <=> (qexpr # NoQuery)
        /\ Buildable =>
             qexpr = IF Len(qreq.Excludes) = 0
                     THEN CombinedIncludes
                     ELSE [op |-> "Difference", index |-> qidx, frame |-> "",
                           row |-> 0,
                           args |-> <<CombinedIncludes>> \o RowLeaves(qreq.Excludes)]

\* C19 witness: a query was built from two different includes and two
\* different excludes.
C19_Witness ==
    /\ qdone /\ qexpr.op = "Difference"
    /\ Len(qreq.Includes) = 2 /\ qreq.Includes[1] # qreq.Includes[2]
    /\ Len(qreq.Excludes) = 2 /\ qreq.Excludes[1] # qreq.Excludes[2]
    /\ qreq.Conjunction = "or"

----------------------------------------------------------------------------
(* Failures before the query is built.                                      *)

\* The schema of the server holds no index of that name.
AbsentIndex(p) == p \notin {"p1", "two", "p3", "p4"}
\* The positions of the rows whose frame the schema of the server lacks.
AbsentFrames(rows) == {i \in 1..Len(rows) : rows[i].Frame \notin {"f1", "f2"}}
\* The request of t names an index or a frame absent from the schema, or a
\* conjunction that is not valid.
Unbuildable(t) ==
    \/ AbsentIndex(req[t[1]].Indexes[t[2]])
    \/ AbsentFrames(req[t[1]].Includes) # {}
    \/ AbsentFrames(req[t[1]].Excludes) # {}
    \/ UnknownConjunction(t[1])
\* The error of the first step that fails: the index, then the includes in
\* order, then the excludes in order, then the conjunction.
FirstBuildError(t) ==
    LET r == req[t[1]]
        p == r.Indexes[t[2]]
    IN  IF AbsentIndex(p)
        THEN [kind |-> "getting index", idx |-> p, arg |-> "", n |-> 0]
        ELSE IF AbsentFrames(r.Includes) # {}
        THEN [kind |-> "getting frame", idx |-> p,
              arg |-> r.Includes[Min(AbsentFrames(r.Includes))].Frame, n |-> 0]
        ELSE IF AbsentFrames(r.Excludes) # {}
        THEN [kind |-> "getting frame", idx |-> p,
              arg |-> r.Excludes[Min(AbsentFrames(r.Excludes))].Frame, n |-> 0]
        ELSE [kind |-> "invalid conjunction", idx |-> "",
              arg |-> r.Conjunction, n |-> 0]

\* C20: when the index, or the frame of an include or of an exclude row, is
\* absent from the schema, or the conjunction of the request is not valid,
\* the goroutine of the index fails and hands no query to client.Query; the
\* error is that of the index, else of the first include that fails, else of
\* the first exclude that fails, else of the conjunction.
C20_BuildFailureSubmitsNothing ==
    \A r \in Reqs : \A t \in TasksOf(r) :
        Unbuildable(t) =>
            /\ tpc[t] \notin {"inflight", "responded", "locked"}
            /\ texpr[t] = NoQuery
            /\ BackFromQueryIndex(t) =>
                 /\ tresp[t] = NoResponse
                 /\ tres[t].err \in {SchemaErr, FirstBuildError(t)}

----------------------------------------------------------------------------
(* The streaming Query and its failures.                                    *)

\* Query returned the error eg.Wait() gave it: that of a slice goroutine.
ReturnedSliceError == sret.returned /\ sgErr # NoErr /\ sret.err = sgErr

\* C21: when the streaming Query returns the error of a slice goroutine, no
\* line of any other goroutine has been written to w.
C21_NoLineOnSliceFailure ==
    ReturnedSliceError => out = <<>>

\* The streaming Query under a scheduler that lets some goroutine run as
\* long as one can: a goroutine that is not blocked on a channel and every
\* call of client.Query that is under way go on.
SpecStreamFair == InitStream /\ [][StreamNext]_vars /\ WF_vars(StreamNext)

\* C22: every call of the streaming Query returns in the end, an error or
\* nil, also when a write of a line to w fails.
C22_QueryTerminates == <>(sret.returned)

\* C23: every slice goroutine the streaming Query launched finishes in the
\* end; none stays blocked in its send on results, whether Query returned
\* after eg.Wait() or from inside its loop.
C23_NoTaskLeftBlocked ==
    \A t \in StreamTasks : (stpc[t] # "none") ~> (stpc[t] = "done")

----------------------------------------------------------------------------
(* The result and the order of the goroutines.                              *)

DistinctNames(r) == Cardinality(Names(r)) = Len(req[r].Indexes)
\* The goroutine of the name p in a request of pairwise distinct names.
TaskOfName(r, p) == CHOOSE t \in TasksFor(r, p) : TRUE
SameAnswers(r1, r2) ==
    \A p \in Names(r1) \cap Names(r2) :
        tresp[TaskOfName(r1, p)] = tresp[TaskOfName(r2, p)]

\* C24: for a request of pairwise distinct names the map Query returns on
\* success is fixed by what client.Query answered for each name: it maps
\* every name to the columns of its answer, whatever the order in which the
\* goroutines took their slots, got their answers and wrote, and whatever
\* the order of the names; two requests of the same names that got the same
\* answers return the same map.
C24_InterleavingIndependence ==
    /\ \A r \in Reqs :
         (Succeeded(r) /\ DistinctNames(r)) =>
             ret[r].results =
                 [p \in Names(r) |-> tresp[TaskOfName(r, p)].ResultList[1]]
    /\ \A r1, r2 \in Reqs :
         (/\ Succeeded(r1) /\ Succeeded(r2)
          /\ DistinctNames(r1) /\ DistinctNames(r2)
          /\ Names(r1) = Names(r2)
          /\ SameAnswers(r1, r2)) =>
             ret[r1].results = ret[r2].results

\* C24 witness: a request of two different names succeeded, the two got
\* different columns, and the goroutine of the second name wrote first.
C24_Witness ==
    \E r \in Reqs :
        /\ Succeeded(r) /\ DistinctNames(r)
        /\ Len(req[r].Indexes) = 2
        /\ tresp[<<r, 1>>] # tresp[<<r, 2>>]
        /\ writeOrder[r] = <<(<<r, 2>>), (<<r, 1>>)>>

====
